---- MODULE Spec2Model ----
(***************************************************************************)
(* A model of the Tetris game of src/tetris: the Tetromino type tables,     *)
(* the Tetromino moves, the Board (validity, full rows, row clearing,       *)
(* ticks, spawning), the GameTick timer, the Input buffer and Game.update.  *)
(***************************************************************************)
EXTENDS Integers, Sequences, FiniteSets, TLC

\* ------------------------------------------------------------------------
\* Bounds of the model
\* ------------------------------------------------------------------------

\* gridWidth and gridHeight as passed to Board(...); the shipped game passes
\* 10 and 20 (tetris.py lines 8, 9), the model checks small boards.
GridWidth == 5

GridHeight == 3

\* the timer and the keyboard stop once this many blocks are settled
MaxSettledBlocks == 5

\* ... or once this many rows have been cleared
MaxRowsCleared == 2

\* SpecPiece moves a Tetromino about anchors (x, y) with |x|, |y| <= MaxAnchor
MaxAnchor == 2

\* SpecClear calls clearRows with lists of at most MaxRowList rows
MaxRowList == 2

\* ------------------------------------------------------------------------
\* Constants of the program
\* ------------------------------------------------------------------------

STARTING_ZONE_HEIGHT == 4

NEXT_X == -5

NEXT_Y == 20

\* Input.TOGGLE_PAUSE, MOVE_DOWN, MOVE_LEFT, MOVE_RIGHT, ROTATE_CLOCKWISE = range(5)
TOGGLE_PAUSE == 0

MOVE_DOWN == 1

MOVE_LEFT == 2

MOVE_RIGHT == 3

ROTATE_CLOCKWISE == 4

\* Input.action when nothing is pending (Python's None)
None == -1

\* Tetromino.RIGHT, DOWN, LEFT, UP = range(4)
RIGHT == 0

DOWN == 1

LEFT == 2

UP == 3

\* the number of entries of TetrominoType.TYPES
NumTypes == 7

Orientations == {RIGHT, DOWN, LEFT, UP}

Commands == {TOGGLE_PAUSE, MOVE_DOWN, MOVE_LEFT, MOVE_RIGHT, ROTATE_CLOCKWISE}

\* the commands a Tetromino understands
PieceCommands == {MOVE_DOWN, MOVE_LEFT, MOVE_RIGHT, ROTATE_CLOCKWISE}

CLOCKWISE_ROTATIONS(o) ==
  CASE o = RIGHT -> DOWN
    [] o = DOWN  -> LEFT
    [] o = LEFT  -> UP
    [] o = UP    -> RIGHT

\* TetrominoType.TYPES[k-1].localBlockCoordsByOrientation[o]
TYPES(k, o) ==
  CASE k = 1 ->   \* line shape
         (CASE o = RIGHT -> << <<0, 1>>, <<1, 1>>, <<2, 1>>, <<3, 1>> >>
            [] o = DOWN  -> << <<1, 0>>, <<1, 1>>, <<1, 2>>, <<1, 3>> >>
            [] o = LEFT  -> << <<0, 2>>, <<1, 2>>, <<2, 2>>, <<3, 2>> >>
            [] o = UP    -> << <<2, 0>>, <<2, 1>>, <<2, 2>>, <<2, 3>> >>)
    [] k = 2 ->   \* square
         (CASE o = RIGHT -> << <<0, 0>>, <<0, 1>>, <<1, 0>>, <<1, 1>> >>
            [] o = DOWN  -> << <<0, 0>>, <<0, 1>>, <<1, 0>>, <<1, 1>> >>
            [] o = LEFT  -> << <<0, 0>>, <<0, 1>>, <<1, 0>>, <<1, 1>> >>
            [] o = UP    -> << <<0, 0>>, <<0, 1>>, <<1, 0>>, <<1, 1>> >>)
    [] k = 3 ->   \* L shape
         (CASE o = RIGHT -> << <<0, 1>>, <<1, 1>>, <<2, 1>>, <<2, 2>> >>
            [] o = DOWN  -> << <<1, 2>>, <<1, 1>>, <<1, 0>>, <<2, 0>> >>
            [] o = LEFT  -> << <<0, 0>>, <<0, 1>>, <<1, 1>>, <<2, 1>> >>
            [] o = UP    -> << <<0, 2>>, <<1, 2>>, <<1, 1>>, <<1, 0>> >>)
    [] k = 4 ->   \* reverse L shape
         (CASE o = RIGHT -> << <<0, 2>>, <<0, 1>>, <<1, 1>>, <<2, 1>> >>
            [] o = DOWN  -> << <<2, 2>>, <<1, 2>>, <<1, 1>>, <<1, 0>> >>
            [] o = LEFT  -> << <<0, 1>>, <<1, 1>>, <<2, 1>>, <<2, 0>> >>
            [] o = UP    -> << <<0, 0>>, <<1, 0>>, <<1, 1>>, <<1, 2>> >>)
    [] k = 5 ->   \* Z shape
         (CASE o = RIGHT -> << <<0, 2>>, <<1, 2>>, <<1, 1>>, <<2, 1>> >>
            [] o = DOWN  -> << <<2, 2>>, <<2, 1>>, <<1, 1>>, <<1, 0>> >>
            [] o = LEFT  -> << <<0, 1>>, <<1, 1>>, <<1, 0>>, <<2, 0>> >>
            [] o = UP    -> << <<0, 0>>, <<0, 1>>, <<1, 1>>, <<1, 2>> >>)
    [] k = 6 ->   \* S shape
         (CASE o = RIGHT -> << <<0, 1>>, <<1, 1>>, <<1, 2>>, <<2, 2>> >>
            [] o = DOWN  -> << <<1, 2>>, <<1, 1>>, <<2, 1>>, <<2, 0>> >>
            [] o = LEFT  -> << <<0, 0>>, <<1, 0>>, <<1, 1>>, <<2, 1>> >>
            [] o = UP    -> << <<0, 2>>, <<0, 1>>, <<1, 1>>, <<1, 0>> >>)
    [] k = 7 ->   \* T shape
         (CASE o = RIGHT -> << <<0, 1>>, <<1, 1>>, <<1, 2>>, <<2, 1>> >>
            [] o = DOWN  -> << <<1, 2>>, <<1, 1>>, <<1, 0>>, <<2, 1>> >>
            [] o = LEFT  -> << <<0, 1>>, <<1, 1>>, <<1, 0>>, <<2, 1>> >>
            [] o = UP    -> << <<0, 1>>, <<1, 0>>, <<1, 1>>, <<1, 2>> >>)

\* the kinds TetrominoType.randomType() draws in the games the model follows:
\* the line and the L shape
Kinds == {1, 3}

AllKinds == 1..NumTypes

\* ------------------------------------------------------------------------
\* Tetromino: a record [x, y, tetrominoType, orientation, blockBoardCoords]
\* ------------------------------------------------------------------------

\* the local coords, not moved to the anchor
calcBlockBoardCoords_local(t) == TYPES(t.tetrominoType, t.orientation)

calcBlockBoardCoords(t) ==
  LET localBlockCoords == TYPES(t.tetrominoType, t.orientation)
  IN  [i \in 1..Len(localBlockCoords) |->
         <<localBlockCoords[i][1] + t.x, localBlockCoords[i][2] + t.y>>]

Recalc(t) == [t EXCEPT !.blockBoardCoords = calcBlockBoardCoords(t)]

\* Tetromino(): at (0, 0), facing RIGHT, of a random type k
NewTetromino(k) ==
  Recalc([x |-> 0, y |-> 0, tetrominoType |-> k, orientation |-> RIGHT,
          blockBoardCoords |-> << >>])

setPosition(t, x, y) == Recalc([t EXCEPT !.x = x, !.y = y])

\* a down-move of two rows
moveDown_byTwo(t) == Recalc([t EXCEPT !.y = t.y - 2])

moveDown(t) == Recalc([t EXCEPT !.y = t.y - 1])

\* an up-move of two rows
moveUp_byTwo(t) == Recalc([t EXCEPT !.y = t.y + 2])

moveUp(t) == Recalc([t EXCEPT !.y = t.y + 1])

moveLeft(t) == Recalc([t EXCEPT !.x = t.x - 1])

moveRight(t) == Recalc([t EXCEPT !.x = t.x + 1])

rotateClockwise(t) ==
  Recalc([t EXCEPT !.orientation = CLOCKWISE_ROTATIONS(t.orientation)])

\* a slip in rotateCounterclockwise: two clockwise steps, not three
rotateCounterclockwise_twice(t) ==
  Recalc([t EXCEPT !.orientation =
            CLOCKWISE_ROTATIONS(CLOCKWISE_ROTATIONS(t.orientation))])

rotateCounterclockwise(t) ==
  Recalc([t EXCEPT !.orientation =
            CLOCKWISE_ROTATIONS(CLOCKWISE_ROTATIONS(CLOCKWISE_ROTATIONS(t.orientation)))])

\* Tetromino.command: any other command (TOGGLE_PAUSE, None) changes nothing
command(t, cmd) ==
  CASE cmd = MOVE_DOWN        -> moveDown(t)
    [] cmd = MOVE_RIGHT       -> moveRight(t)
    [] cmd = MOVE_LEFT        -> moveLeft(t)
    [] cmd = ROTATE_CLOCKWISE -> rotateClockwise(t)
    [] OTHER                  -> t

undoCommand(t, cmd) ==
  CASE cmd = MOVE_DOWN        -> moveUp(t)
    [] cmd = MOVE_RIGHT       -> moveLeft(t)
    [] cmd = MOVE_LEFT        -> moveRight(t)
    [] cmd = ROTATE_CLOCKWISE -> rotateCounterclockwise(t)
    [] OTHER                  -> t

\* the loop of Tetromino.clearRow over a list of coords
RECURSIVE ClearRowCoords(_, _)
ClearRowCoords(coords, boardGridRow) ==
  IF coords = << >> THEN << >>
  ELSE LET coord == Head(coords)
           rest  == ClearRowCoords(Tail(coords), boardGridRow)
       IN  IF coord[2] > boardGridRow THEN << <<coord[1], coord[2] - 1>> >> \o rest
           ELSE IF coord[2] < boardGridRow THEN << coord >> \o rest
           ELSE rest

\* Tetromino.clearRow: the piece afterwards (it returns whether coords remain)
TetrominoClearRow(t, boardGridRow) ==
  [t EXCEPT !.blockBoardCoords = ClearRowCoords(t.blockBoardCoords, boardGridRow)]

\* ------------------------------------------------------------------------
\* Board: a record [tetrominos, fallingTetromino, nextTetromino]
\* ------------------------------------------------------------------------

\* a spawn column two short of the right wall
spawnX_right == GridWidth - 2

\* int(gridWidth * 1/3)
spawnX == GridWidth \div 3

spawnY == GridHeight

\* Board.spawnTetromino, the new next Tetromino being of type k
spawnTetromino(b, k) ==
  [b EXCEPT !.fallingTetromino = setPosition(b.nextTetromino, spawnX, spawnY),
            !.nextTetromino = setPosition(NewTetromino(k), NEXT_X, NEXT_Y)]

\* Board.__init__: the first next Tetromino of type k1 is spawned, the next is k2
NewBoard(k1, k2) ==
  spawnTetromino([tetrominos |-> << >>,
                  fallingTetromino |-> NewTetromino(k1),
                  nextTetromino |-> NewTetromino(k1)], k2)

\* nonFallingBlockCoords: the coords of all settled tetrominos, in list order
RECURSIVE NonFallingBlockCoords(_)
NonFallingBlockCoords(tetrominos) ==
  IF tetrominos = << >> THEN << >>
  ELSE Head(tetrominos).blockBoardCoords \o NonFallingBlockCoords(Tail(tetrominos))

\* the overlap test left out
InList_never(coord, list) == FALSE

\* coord in nonFallingBlockCoords
InList(coord, list) == \E i \in 1..Len(list) : list[i] = coord

\* the bounds test without the right edge
outOfBounds_noRightEdge(coord) == coord[1] < 0 \/ coord[2] < 0

outOfBounds(coord) == coord[1] < 0 \/ coord[1] >= GridWidth \/ coord[2] < 0

isValidPosition(b) ==
  LET nonFallingBlockCoords == NonFallingBlockCoords(b.tetrominos)
      coords == b.fallingTetromino.blockBoardCoords
  IN  \A i \in 1..Len(coords) :
        ~(outOfBounds(coords[i]) \/ InList(coords[i], nonFallingBlockCoords))

\* a table with the rows of the grid only
RowTable_gridOnly == 0..(GridHeight - 1)

\* the rows of the rowCounts table of findFullRows
RowTable == 0..(GridHeight + STARTING_ZONE_HEIGHT - 1)

\* rowCounts[coord[1]] += 1 raises KeyError for a row outside the table
findFullRowsFails(b) ==
  LET nonFallingBlockCoords == NonFallingBlockCoords(b.tetrominos)
  IN  \E i \in 1..Len(nonFallingBlockCoords) : nonFallingBlockCoords[i][2] \notin RowTable

\* the count with the falling Tetromino's blocks taken in
rowCounts_withFalling(b, row) ==
  LET coords == NonFallingBlockCoords(b.tetrominos) \o b.fallingTetromino.blockBoardCoords
  IN  Cardinality({i \in 1..Len(coords) : coords[i][2] = row})

\* rowCounts[row] once every coord is counted
rowCounts(b, row) ==
  LET nonFallingBlockCoords == NonFallingBlockCoords(b.tetrominos)
  IN  Cardinality({i \in 1..Len(nonFallingBlockCoords) : nonFallingBlockCoords[i][2] = row})

\* the rows of the table from row `from` on, in the table's order, that are full
RECURSIVE FullRowsFrom(_, _)
FullRowsFrom(b, from) ==
  IF from \notin RowTable THEN << >>
  ELSE (IF rowCounts(b, from) = GridWidth THEN << from >> ELSE << >>)
         \o FullRowsFrom(b, from + 1)

findFullRows(b) == FullRowsFrom(b, 0)

\* Board.clearRow keeping the tetrominos that have no block left
ClearRowList_keepsEmpty(tetrominos, gridRow) ==
  [i \in 1..Len(tetrominos) |-> TetrominoClearRow(tetrominos[i], gridRow)]

\* the loop of Board.clearRow over the settled tetrominos
RECURSIVE ClearRowList(_, _)
ClearRowList(tetrominos, gridRow) ==
  IF tetrominos = << >> THEN << >>
  ELSE LET t == TetrominoClearRow(Head(tetrominos), gridRow)
           rest == ClearRowList(Tail(tetrominos), gridRow)
       IN  IF Len(t.blockBoardCoords) > 0 THEN << t >> \o rest ELSE rest

\* Board.clearRow leaving the board as it is
clearRow_keepsAll(b, gridRow) == b

clearRow(b, gridRow) == [b EXCEPT !.tetrominos = ClearRowList(b.tetrominos, gridRow)]

\* gridRows.sort(reverse=True)
RECURSIVE InsertDescending(_, _)
InsertDescending(row, sorted) ==
  IF sorted = << >> THEN << row >>
  ELSE IF row >= Head(sorted) THEN << row >> \o sorted
  ELSE << Head(sorted) >> \o InsertDescending(row, Tail(sorted))

\* clearRows without its sort
SortDescending_omitted(gridRows) == gridRows

RECURSIVE SortDescending(_)
SortDescending(gridRows) ==
  IF gridRows = << >> THEN << >>
  ELSE InsertDescending(Head(gridRows), SortDescending(Tail(gridRows)))

\* for row in gridRows: self.clearRow(row)
RECURSIVE ClearEach(_, _)
ClearEach(b, gridRows) ==
  IF gridRows = << >> THEN b
  ELSE ClearEach(clearRow(b, Head(gridRows)), Tail(gridRows))

clearRows(b, gridRows) == ClearEach(b, SortDescending(gridRows))

\* what the rows cleared by clearRows leave of one Tetromino object; the object
\* the board just appended is still Board.fallingTetromino
RECURSIVE ClearEachOfTetromino(_, _)
ClearEachOfTetromino(t, gridRows) ==
  IF gridRows = << >> THEN t
  ELSE ClearEachOfTetromino(TetrominoClearRow(t, Head(gridRows)), Tail(gridRows))

\* commandFallingTetromino without the rollback
RollBackIfInvalid_never(moved, cmd) == moved

\* if not self.isValidPosition(): self.fallingTetromino.undoCommand(command)
RollBackIfInvalid(moved, cmd) ==
  IF ~isValidPosition(moved)
  THEN [moved EXCEPT !.fallingTetromino = undoCommand(moved.fallingTetromino, cmd)]
  ELSE moved

commandFallingTetromino(b, cmd) ==
  RollBackIfInvalid([b EXCEPT !.fallingTetromino = command(b.fallingTetromino, cmd)], cmd)

\* isInStartZone never finding a block in the start zone
isInStartZone_never(t) == FALSE

\* a slip in isInStartZone: > in place of >=
isInStartZone_strict(t) ==
  \E i \in 1..Len(t.blockBoardCoords) : t.blockBoardCoords[i][2] > GridHeight

isInStartZone(t) ==
  \E i \in 1..Len(t.blockBoardCoords) : t.blockBoardCoords[i][2] >= GridHeight

\* what Board.updateTick returns, with the board it leaves and whether
\* findFullRows raised KeyError
TickResult(b, n, gameLost, raised) ==
  [board |-> b, numClearedRows |-> n, gameLost |-> gameLost, failed |-> raised]

\* updateTick spawning after a lost lock too
SpawnUnlessLost_always(after, n, gameLost, k) ==
  TickResult(spawnTetromino(after, k), n, gameLost, FALSE)

\* if not gameLost: self.spawnTetromino(); numClearedRows = len(fullRows)
SpawnUnlessLost(after, n, gameLost, k) ==
  TickResult(IF ~gameLost THEN spawnTetromino(after, k) ELSE after, n, gameLost, FALSE)

\* self.clearRows(fullRows); gameLost = self.isInStartZone(self.fallingTetromino):
\* the appended object is still Board.fallingTetromino, as clearRows left it
ClearAndCheck(appended, fullRows, k) ==
  SpawnUnlessLost(
    [clearRows(appended, fullRows) EXCEPT
       !.fallingTetromino =
          ClearEachOfTetromino(appended.fallingTetromino, SortDescending(fullRows))],
    Len(fullRows),
    isInStartZone(ClearEachOfTetromino(appended.fallingTetromino, SortDescending(fullRows))),
    k)

\* fullRows = self.findFullRows()
FindAndClear(appended, k) ==
  IF findFullRowsFails(appended)
  THEN TickResult(appended, 0, FALSE, TRUE)
  ELSE ClearAndCheck(appended, findFullRows(appended), k)

\* self.tetrominos.append(self.fallingTetromino)
AppendFalling(b) == [b EXCEPT !.tetrominos = Append(b.tetrominos, b.fallingTetromino)]

\* the body of updateTick once the falling Tetromino is moved down
TickMoved(moved, k) ==
  IF isValidPosition(moved)
  THEN TickResult(moved, 0, FALSE, FALSE)
  ELSE FindAndClear(
         AppendFalling([moved EXCEPT !.fallingTetromino =
                          undoCommand(moved.fallingTetromino, MOVE_DOWN)]), k)

\* Board.updateTick, a spawned next Tetromino being of type k
updateTick(b, k) ==
  TickMoved([b EXCEPT !.fallingTetromino = command(b.fallingTetromino, MOVE_DOWN)], k)

\* ------------------------------------------------------------------------
\* GameTick: a record [started, tick], and the callbacks pyglet has scheduled
\* ------------------------------------------------------------------------

\* GameTick(): tickOnFirstCall is False
NewGameTick == [started |-> FALSE, tick |-> FALSE]

\* isTick without the schedule_once of its True branch
isTick_noRearm(tk) ==
  IF ~tk.started
  THEN [ret |-> FALSE, ticker |-> [tk EXCEPT !.started = TRUE], schedules |-> 1]
  ELSE IF tk.tick
  THEN [ret |-> TRUE, ticker |-> [tk EXCEPT !.tick = FALSE], schedules |-> 0]
  ELSE [ret |-> FALSE, ticker |-> tk, schedules |-> 0]

\* GameTick.isTick: [ret, ticker, schedules (calls of pyglet.clock.schedule_once)]
isTick(tk) ==
  IF ~tk.started
  THEN [ret |-> FALSE, ticker |-> [tk EXCEPT !.started = TRUE], schedules |-> 1]
  ELSE IF tk.tick
  THEN [ret |-> TRUE, ticker |-> [tk EXCEPT !.tick = FALSE], schedules |-> 1]
  ELSE [ret |-> FALSE, ticker |-> tk, schedules |-> 0]

\* ------------------------------------------------------------------------
\* The state of the program
\* ------------------------------------------------------------------------

VARIABLES
  board,            \* Game.board
  paused,           \* Game.paused
  lost,             \* Game.lost
  numRowsCleared,   \* Game.numRowsCleared
  rowsCleared,      \* Game.rowsCleared (None until the first tick)
  action,           \* Input.action
  ticker,           \* Game.ticker
  scheduled,        \* the number of setTick callbacks pyglet's clock holds
  infoDisplay,      \* InfoDisplay's showPausedLabel and showGameoverLabel
  failed            \* an exception has left Game.update

vars == <<board, paused, lost, numRowsCleared, rowsCleared, action, ticker,
          scheduled, infoDisplay, failed>>

\* Game.__init__, Board.__init__, Input.__init__, InfoDisplay.__init__
Init ==
  /\ \E k1 \in Kinds, k2 \in Kinds : board = NewBoard(k1, k2)
  /\ paused = FALSE
  /\ lost = FALSE
  /\ numRowsCleared = 0
  /\ rowsCleared = None
  /\ action = None
  /\ ticker = NewGameTick
  /\ scheduled = 0
  /\ infoDisplay = [showPausedLabel |-> FALSE, showGameoverLabel |-> FALSE]
  /\ failed = FALSE

\* The model follows a game until MaxSettledBlocks blocks lie on the board or
\* MaxRowsCleared rows are cleared; a lost game is followed on.
Live ==
  /\ ~failed
  /\ \/ lost
     \/ /\ Len(NonFallingBlockCoords(board.tetrominos)) < MaxSettledBlocks
        /\ numRowsCleared < MaxRowsCleared

\* the Game with its Input, InfoDisplay and clock, as one record
Game ==
  [board |-> board, paused |-> paused, lost |-> lost,
   numRowsCleared |-> numRowsCleared, rowsCleared |-> rowsCleared,
   action |-> action, ticker |-> ticker, scheduled |-> scheduled,
   infoDisplay |-> infoDisplay, failed |-> failed]

\* Input.processKeypress with the space key
processKeypressOf(g) == [g EXCEPT !.action = TOGGLE_PAUSE]

processKeypress ==
  /\ Live
  /\ action' = processKeypressOf(Game).action
  /\ UNCHANGED <<board, paused, lost, numRowsCleared, rowsCleared, ticker,
                 scheduled, infoDisplay, failed>>

\* Input.processTextMotion with one of the four motions
processTextMotionOf(g, cmd) == [g EXCEPT !.action = cmd]

processTextMotion ==
  /\ Live
  /\ \E cmd \in PieceCommands : action' = processTextMotionOf(Game, cmd).action
  /\ UNCHANGED <<board, paused, lost, numRowsCleared, rowsCleared, ticker,
                 scheduled, infoDisplay, failed>>

\* the callback setTick of GameTick.isTick, run once by pyglet's clock
setTickOf(g) ==
  [g EXCEPT !.ticker = [g.ticker EXCEPT !.tick = TRUE], !.scheduled = g.scheduled - 1]

setTick ==
  /\ Live
  /\ scheduled > 0
  /\ ticker' = setTickOf(Game).ticker
  /\ scheduled' = setTickOf(Game).scheduled
  /\ UNCHANGED <<board, paused, lost, numRowsCleared, rowsCleared, action,
                 infoDisplay, failed>>

\* a slip in togglePause: the flag is set, not flipped
togglePause_set(g) ==
  [g EXCEPT !.paused = TRUE,
            !.infoDisplay = [g.infoDisplay EXCEPT !.showPausedLabel = TRUE]]

\* Game.togglePause
togglePause(g) ==
  [g EXCEPT !.paused = ~g.paused,
            !.infoDisplay = [g.infoDisplay EXCEPT !.showPausedLabel = ~g.paused]]

\* a slip in addRowsCleared: every call counts one row
addRowsCleared_one(g, n) == [g EXCEPT !.numRowsCleared = g.numRowsCleared + 1]

\* Game.addRowsCleared (the label's text follows numRowsCleared)
addRowsCleared(g, n) == [g EXCEPT !.numRowsCleared = g.numRowsCleared + n]

\* update without its first test
AlreadyLost_never(g) == FALSE

\* if self.lost
AlreadyLost(g) == g.lost

\* the second test without the paused flag
Running_whilePaused(g) == ~g.lost

\* if not self.paused and not self.lost
Running(g) == ~g.paused /\ ~g.lost

\* if command and command != Input.TOGGLE_PAUSE (TOGGLE_PAUSE is 0, which is falsy)
Forwarded(cmd) == cmd # None /\ cmd # 0 /\ cmd # TOGGLE_PAUSE

\* self.rowsCleared, self.lost = (the result r of updateTick); addRowsCleared
Ticked(g, r) ==
  IF r.failed
  THEN [g EXCEPT !.board = r.board, !.failed = TRUE]
  ELSE addRowsCleared([g EXCEPT !.board = r.board,
                                !.rowsCleared = r.numClearedRows,
                                !.lost = r.gameLost],
                      r.numClearedRows)

\* the tick of Game.update; a spawned next Tetromino is of type k
tickOf(g, k) == Ticked(g, updateTick(g.board, k))

\* if self.ticker.isTick(self.tickSpeed): ...
Polled(g, poll, k) ==
  IF poll.ret
  THEN tickOf([g EXCEPT !.ticker = poll.ticker,
                        !.scheduled = g.scheduled + poll.schedules], k)
  ELSE [g EXCEPT !.ticker = poll.ticker, !.scheduled = g.scheduled + poll.schedules]

\* if not self.paused and not self.lost: forward the command, poll the timer
AfterToggle(g, cmd, k) ==
  IF Running(g)
  THEN Polled(IF Forwarded(cmd)
              THEN [g EXCEPT !.board = commandFallingTetromino(g.board, cmd)]
              ELSE g,
              isTick(g.ticker), k)
  ELSE g

\* if command == Input.TOGGLE_PAUSE: self.togglePause()
AfterConsume(g, cmd, k) ==
  AfterToggle(IF cmd = TOGGLE_PAUSE THEN togglePause(g) ELSE g, cmd, k)

\* Game.update as a function of the Game; a spawned next Tetromino is of type k
updateOf(g, k) ==
  IF AlreadyLost(g)
  THEN [g EXCEPT !.infoDisplay = [g.infoDisplay EXCEPT !.showGameoverLabel = TRUE]]
  ELSE AfterConsume([g EXCEPT !.action = None], g.action, k)   \* self.input.consume()

\* Game.update, called by pyglet's clock 60 times a second
update ==
  /\ ~failed
  /\ \E g \in {updateOf(Game, k) : k \in Kinds} :
           /\ board' = g.board
           /\ paused' = g.paused
           /\ lost' = g.lost
           /\ numRowsCleared' = g.numRowsCleared
           /\ rowsCleared' = g.rowsCleared
           /\ action' = g.action
           /\ ticker' = g.ticker
           /\ scheduled' = g.scheduled
           /\ infoDisplay' = g.infoDisplay
           /\ failed' = g.failed

Next ==
  \/ processKeypress
  \/ processTextMotion
  \/ setTick
  \/ update

Spec == Init /\ [][Next]_vars

\* ------------------------------------------------------------------------
\* SpecPiece: one Tetromino of any of the seven types, commanded and undone
\* ------------------------------------------------------------------------

\* a new Game around a given Board
GameAround(b) ==
  /\ board = b
  /\ paused = FALSE
  /\ lost = FALSE
  /\ numRowsCleared = 0
  /\ rowsCleared = None
  /\ action = None
  /\ ticker = NewGameTick
  /\ scheduled = 0
  /\ infoDisplay = [showPausedLabel |-> FALSE, showGameoverLabel |-> FALSE]
  /\ failed = FALSE

\* a new Tetromino of any type on an empty board
InitPiece ==
  \E k \in AllKinds :
    GameAround([tetrominos |-> << >>,
                fallingTetromino |-> NewTetromino(k),
                nextTetromino |-> NewTetromino(k)])

WithinAnchors(t) ==
  t.x \in (-MaxAnchor)..MaxAnchor /\ t.y \in (-MaxAnchor)..MaxAnchor

\* Tetromino.command on the Tetromino
commandPiece ==
  /\ \E cmd \in PieceCommands :
       /\ WithinAnchors(command(board.fallingTetromino, cmd))
       /\ board' = [board EXCEPT !.fallingTetromino = command(board.fallingTetromino, cmd)]
  /\ UNCHANGED <<paused, lost, numRowsCleared, rowsCleared, action, ticker,
                 scheduled, infoDisplay, failed>>

\* Tetromino.undoCommand on the Tetromino
undoCommandPiece ==
  /\ \E cmd \in PieceCommands :
       /\ WithinAnchors(undoCommand(board.fallingTetromino, cmd))
       /\ board' = [board EXCEPT !.fallingTetromino = undoCommand(board.fallingTetromino, cmd)]
  /\ UNCHANGED <<paused, lost, numRowsCleared, rowsCleared, action, ticker,
                 scheduled, infoDisplay, failed>>

NextPiece == commandPiece \/ undoCommandPiece

SpecPiece == InitPiece /\ [][NextPiece]_vars

\* ------------------------------------------------------------------------
\* SpecClear: Board.clearRows on boards of two settled tetrominos
\* ------------------------------------------------------------------------

\* the rows given to clearRows: those of the grid and the first of the start zone
ClearableRows == 0..GridHeight

\* the lists of distinct rows, of at most MaxRowList rows, in any order
RECURSIVE RowListsOfLen(_)
RowListsOfLen(n) ==
  IF n = 0 THEN {<< >>}
  ELSE {Append(l, r) : l \in RowListsOfLen(n - 1), r \in ClearableRows}
         \cup RowListsOfLen(n - 1)

Distinct(list) == \A i, j \in 1..Len(list) : i # j => list[i] # list[j]

RowLists == {l \in RowListsOfLen(MaxRowList) : Distinct(l)}

\* a Tetromino of one of the types `kinds` as it lies on a board: in any
\* orientation, within the walls
Placements(kinds) ==
  {t \in {Recalc([x |-> x, y |-> y, tetrominoType |-> k, orientation |-> o,
                  blockBoardCoords |-> << >>]) :
            k \in kinds, o \in Orientations, x \in (-2)..(GridWidth - 1),
            y \in (-2)..MaxAnchor} :
     \A i \in 1..Len(t.blockBoardCoords) : ~outOfBounds(t.blockBoardCoords[i])}

\* two settled tetrominos that do not overlap: the first of any type in the
\* lower left corner, the second in the spawn column at any height
InitClear ==
  \E t1 \in Placements(AllKinds), t2 \in Placements(Kinds) :
    /\ \E i \in 1..4 : t1.blockBoardCoords[i][1] = 0
    /\ \E i \in 1..4 : t1.blockBoardCoords[i][2] = 0
    /\ t2.x = spawnX
    /\ \A i, j \in 1..4 : t1.blockBoardCoords[i] # t2.blockBoardCoords[j]
    /\ GameAround([NewBoard(t1.tetrominoType, t2.tetrominoType) EXCEPT
                     !.tetrominos = << t1, t2 >>])

\* Board.clearRows with any list of rows
clearSomeRows ==
  /\ \E gridRows \in RowLists : board' = clearRows(board, gridRows)
  /\ UNCHANGED <<paused, lost, numRowsCleared, rowsCleared, action, ticker,
                 scheduled, infoDisplay, failed>>

NextClear == clearSomeRows

SpecClear == InitClear /\ [][NextClear]_vars

\* ------------------------------------------------------------------------
\* SpecBoard: the Board alone, under any sequence of commands and ticks
\* ------------------------------------------------------------------------

\* the types drawn in SpecBoard: the line, the L and the T
BoardKinds == Kinds \cup {NumTypes}

InitBoard == \E k1, k2 \in BoardKinds : GameAround(NewBoard(k1, k2))

\* Board.commandFallingTetromino, as Game.update calls it in a game that is on
commandBoard ==
  /\ Live /\ ~lost
  /\ \E cmd \in PieceCommands : board' = commandFallingTetromino(board, cmd)
  /\ UNCHANGED <<paused, lost, numRowsCleared, rowsCleared, action, ticker,
                 scheduled, infoDisplay, failed>>

\* Board.updateTick, as Game.update calls it in a game that is on
tickBoard ==
  /\ Live /\ ~lost
  /\ \E g \in {tickOf(Game, k) : k \in BoardKinds} :
       /\ board' = g.board
       /\ lost' = g.lost
       /\ numRowsCleared' = g.numRowsCleared
       /\ rowsCleared' = g.rowsCleared
       /\ failed' = g.failed
  /\ UNCHANGED <<paused, action, ticker, scheduled, infoDisplay>>

NextBoard == commandBoard \/ tickBoard

SpecBoard == InitBoard /\ [][NextBoard]_vars

\* ------------------------------------------------------------------------
\* SpecFall: the Board under ticks that keep coming, the player moving the
\* piece sideways and turning it. (MOVE_DOWN does to the board what a tick
\* with a valid down-move does, so the boards are those of SpecBoard; left
\* out, the rows a piece has come down are the ticks it has had.)
\* ------------------------------------------------------------------------

\* the commands that leave the falling piece in its row
SidewaysCommands == PieceCommands \ {MOVE_DOWN}

\* Board.commandFallingTetromino with a command other than MOVE_DOWN
commandSideways ==
  /\ Live /\ ~lost
  /\ \E cmd \in SidewaysCommands : board' = commandFallingTetromino(board, cmd)
  /\ UNCHANGED <<paused, lost, numRowsCleared, rowsCleared, action, ticker,
                 scheduled, infoDisplay, failed>>

NextFall == commandSideways \/ tickBoard

\* the timer keeps becoming due and update keeps being called, so a tick
\* that can be taken is taken in the end: weak fairness of tickBoard,
\* WF_vars(tickBoard), written with its enabling condition ~lost /\ Live
\* spelled out (a tick always changes the board)
TicksKeepComing == []<>(lost \/ ~Live) \/ []<><<tickBoard>>_vars

SpecFall == InitBoard /\ [][NextFall]_vars /\ TicksKeepComing

\* ------------------------------------------------------------------------
\* SpecLock: one piece falls on a board of two settled tetrominos and locks
\* ------------------------------------------------------------------------

\* the cells of the settled tetrominos, as findFullRows collects them
NonFallingBlockCoordsSet(b) ==
  {NonFallingBlockCoords(b.tetrominos)[i] : i \in 1..Len(NonFallingBlockCoords(b.tetrominos))}

\* a game that is on, with two settled tetrominos as in InitClear that lie in
\* the grid and fill no row; the falling piece has the first one's type
InitLock ==
  /\ InitClear
  /\ \A cell \in NonFallingBlockCoordsSet(board) : cell[2] < GridHeight
  /\ findFullRows(board) = << >>

\* the piece of InitLock is still falling
Falling ==
  ~lost /\ ~failed /\ numRowsCleared = 0 /\ Len(board.tetrominos) = 2

\* Board.commandFallingTetromino on the falling piece
commandLock ==
  /\ Falling
  /\ \E cmd \in PieceCommands : board' = commandFallingTetromino(board, cmd)
  /\ UNCHANGED <<paused, lost, numRowsCleared, rowsCleared, action, ticker,
                 scheduled, infoDisplay, failed>>

\* Board.updateTick, as Game.update calls it, until the piece has locked
tickLock ==
  /\ Falling
  /\ \E g \in {tickOf(Game, k) : k \in Kinds} :
       /\ board' = g.board
       /\ lost' = g.lost
       /\ numRowsCleared' = g.numRowsCleared
       /\ rowsCleared' = g.rowsCleared
       /\ failed' = g.failed
  /\ UNCHANGED <<paused, action, ticker, scheduled, infoDisplay>>

NextLock == commandLock \/ tickLock

SpecLock == InitLock /\ [][NextLock]_vars

\* ------------------------------------------------------------------------
\* SpecIdle: the whole game with a player who never moves or turns a piece
\* (the space key is the only input), pieces of all seven types, and a clock
\* that keeps calling update and firing the tick timer
\* ------------------------------------------------------------------------

InitIdle == \E k1, k2 \in AllKinds : GameAround(NewBoard(k1, k2))

\* Input.processKeypress with the space key
idleKeypress ==
  /\ action' = processKeypressOf(Game).action
  /\ UNCHANGED <<board, paused, lost, numRowsCleared, rowsCleared, ticker,
                 scheduled, infoDisplay, failed>>

\* the callback setTick, run by pyglet's clock
idleSetTick ==
  /\ scheduled > 0
  /\ ticker' = setTickOf(Game).ticker
  /\ scheduled' = setTickOf(Game).scheduled
  /\ UNCHANGED <<board, paused, lost, numRowsCleared, rowsCleared, action,
                 infoDisplay, failed>>

\* Game.update, a spawned next Tetromino being of any type
idleUpdate ==
  /\ ~failed
  /\ \E g \in {updateOf(Game, k) : k \in AllKinds} :
       /\ board' = g.board
       /\ paused' = g.paused
       /\ lost' = g.lost
       /\ numRowsCleared' = g.numRowsCleared
       /\ rowsCleared' = g.rowsCleared
       /\ action' = g.action
       /\ ticker' = g.ticker
       /\ scheduled' = g.scheduled
       /\ infoDisplay' = g.infoDisplay
       /\ failed' = g.failed

NextIdle == idleKeypress \/ idleSetTick \/ idleUpdate

\* an update would change the state (ENABLED <<idleUpdate>>_vars)
UpdateChanges == ~failed /\ \E k \in AllKinds : updateOf(Game, k) # Game

\* pyglet's clock keeps calling update: weak fairness of idleUpdate,
\* WF_vars(idleUpdate), with its enabling condition spelled out
UpdatesKeepComing == []<>(~UpdateChanges) \/ []<><<idleUpdate>>_vars

\* a scheduled setTick is run in the end: weak fairness of idleSetTick,
\* WF_vars(idleSetTick), with its enabling condition spelled out
TimerKeepsFiring == []<>(scheduled = 0) \/ []<><<idleSetTick>>_vars

\* the player does not leave the game paused
NotLeftPaused == []<>(~paused)

SpecIdle ==
  InitIdle /\ [][NextIdle]_vars
    /\ UpdatesKeepComing /\ TimerKeepsFiring /\ NotLeftPaused

\* ------------------------------------------------------------------------
\* Definitions the properties are stated with
\* ------------------------------------------------------------------------

\* the set of the elements of a sequence
Range(seq) == {seq[i] : i \in 1..Len(seq)}

\* the cells of a Tetromino
CellsOf(t) == Range(t.blockBoardCoords)

\* the cells of the settled tetrominos of a board
SettledCells(b) == UNION {CellsOf(b.tetrominos[i]) : i \in 1..Len(b.tetrominos)}

\* the rows that are full in a set of cells
FullRowsIn(cells) == {r \in RowTable : \A c \in 0..(GridWidth - 1) : <<c, r>> \in cells}

\* a set of cells once the rows `rows` are removed from the board they lie on
AfterRemoval(cells, rows) ==
  {<<cell[1], cell[2] - Cardinality({r \in rows : r < cell[2]})>> :
     cell \in {c \in cells : c[2] \notin rows}}

\* the falling Tetromino moved down by one row
MovedDown(b) == [b EXCEPT !.fallingTetromino = command(b.fallingTetromino, MOVE_DOWN)]

\* the board a tick of this update would work on: the pending command is applied
BoardBeforeTick ==
  IF Forwarded(action) THEN commandFallingTetromino(board, action) ELSE board

\* a step of update that consumes a due tick (only isTick resets GameTick.tick)
TickStep == ~failed /\ ~lost /\ ticker.tick /\ ~ticker'.tick

\* a step of update whose tick locks the falling Tetromino
LockStep == TickStep /\ ~isValidPosition(MovedDown(BoardBeforeTick))

\* the Tetromino a LockStep locks, where it came to rest
RestTetromino == BoardBeforeTick.fallingTetromino

\* ------------------------------------------------------------------------
\* C1
\* ------------------------------------------------------------------------

\* C1 as stated: when updateTick locks the falling piece, the game is lost if
\* and only if the piece, where it came to rest, has a cell with row >= gridHeight.
C1_AsStated ==
  [][LockStep => (lost' <=> \E cell \in CellsOf(RestTetromino) : cell[2] >= GridHeight)]_vars

\* C1 (amended): when updateTick locks the falling piece, the game is lost if
\* and only if the piece still has a cell with row >= gridHeight after the rows
\* the lock completed are cleared: its cells in cleared rows are gone and every
\* other cell has come down by the number of cleared rows below it.
C1_LostIffInStartZoneAfterClear ==
  [][LockStep =>
       LET full == FullRowsIn(SettledCells(BoardBeforeTick) \cup CellsOf(RestTetromino))
           left == AfterRemoval(CellsOf(RestTetromino), full)
       IN  lost' <=> \E cell \in left : cell[2] >= GridHeight]_vars

\* a piece has been locked whose rest position reached into the start zone,
\* rows were cleared by that lock, and the game is not lost
C1_Witness ==
  /\ ~lost
  /\ rowsCleared # None /\ rowsCleared > 0
  /\ \E i \in 1..Len(board.tetrominos) :
       \E cell \in Range(calcBlockBoardCoords(board.tetrominos[i])) : cell[2] >= GridHeight

\* ------------------------------------------------------------------------
\* C2
\* ------------------------------------------------------------------------

\* C2: once the game is lost it stays lost, and no step (update, a key press,
\* a timer firing) changes the board, the paused flag or numRowsCleared.
C2_LostIsTerminal ==
  [][lost => (lost' /\ board' = board /\ paused' = paused
              /\ numRowsCleared' = numRowsCleared)]_vars

\* update has run on a lost game with a command pending and the timer fired
C2_Witness ==
  lost /\ infoDisplay.showGameoverLabel /\ action = TOGGLE_PAUSE /\ ticker.tick

\* ------------------------------------------------------------------------
\* C3
\* ------------------------------------------------------------------------

\* what may happen between two updates that both consume TOGGLE_PAUSE: the
\* space key is pressed, and the scheduled callback fires or does not
Between(g, fire) ==
  LET fired == IF fire /\ g.scheduled > 0 THEN setTickOf(g) ELSE g
  IN  processKeypressOf(fired)

\* C3 as stated: two consecutive updates that each consume TOGGLE_PAUSE leave
\* the paused flag and the board as they were, whether or not the timer
\* becomes due in between.
C3_AsStated ==
  (~lost /\ ~failed /\ action = TOGGLE_PAUSE) =>
    \A fire \in BOOLEAN, k1 \in Kinds, k2 \in Kinds :
      LET g1 == updateOf(Game, k1)
          g2 == updateOf(Between(g1, fire), k2)
      IN  ~g1.lost => (g2.paused = paused /\ g2.board = board)

\* C3 (amended): two consecutive updates that each consume TOGGLE_PAUSE leave
\* the paused flag as it was; the board is as it was when the timer poll of
\* the one of the two updates that ends with paused false returns False, and
\* otherwise it is the board advanced by one updateTick.
C3_TogglePauseTwice ==
  (~lost /\ ~failed /\ action = TOGGLE_PAUSE) =>
    \A fire \in BOOLEAN, k1 \in Kinds, k2 \in Kinds :
      LET g1 == updateOf(Game, k1)
          g2 == updateOf(Between(g1, fire), k2)
          due == IF paused THEN isTick(ticker).ret
                 ELSE isTick(Between(g1, fire).ticker).ret
          k == IF paused THEN k1 ELSE k2
      IN  ~g1.lost =>
            /\ g2.paused = paused
            /\ g2.board = IF due THEN updateTick(board, k).board ELSE board

\* one toggle has paused the game, the next is pending and a tick is due
C3_Witness ==
  ~lost /\ paused /\ action = TOGGLE_PAUSE /\ ticker.tick

\* ------------------------------------------------------------------------
\* C4
\* ------------------------------------------------------------------------

\* a step of Game.update
UpdateStep == \E k \in Kinds : Game' = updateOf(Game, k)

\* C4: an update of a game that is not lost and that ends with paused true
\* leaves the board, numRowsCleared and lost alone and does not poll the
\* timer: GameTick and the scheduled callback are as before, a due tick stays due.
C4_PausedUpdateIsInert ==
  [][(~lost /\ UpdateStep /\ paused') =>
       /\ board' = board
       /\ numRowsCleared' = numRowsCleared
       /\ lost' = lost
       /\ ticker' = ticker
       /\ scheduled' = scheduled]_vars

\* the game is paused, a tick is due and the pending command has been consumed
C4_Witness ==
  ~lost /\ paused /\ ticker.tick /\ action = None

\* ------------------------------------------------------------------------
\* C5
\* ------------------------------------------------------------------------

\* the board with the command applied to the falling Tetromino and not undone
Commanded(b, cmd) == [b EXCEPT !.fallingTetromino = command(b.fallingTetromino, cmd)]

\* C5: from a valid position, commandFallingTetromino leaves the falling piece
\* in a valid position; it is the commanded piece when that position is valid
\* and exactly the piece as it was (anchor, orientation, cells) when it is
\* not; the settled pieces and the next piece are untouched.
C5_CommandRollsBack ==
  (~failed /\ isValidPosition(board)) =>
    \A cmd \in PieceCommands :
      LET after == commandFallingTetromino(board, cmd)
      IN  /\ isValidPosition(after)
          /\ after.fallingTetromino =
               IF isValidPosition(Commanded(board, cmd))
               THEN Commanded(board, cmd).fallingTetromino
               ELSE board.fallingTetromino
          /\ after.tetrominos = board.tetrominos
          /\ after.nextTetromino = board.nextTetromino

\* a rotated falling piece in a valid position beside settled pieces, for
\* which one command is refused and another is kept
C5_Witness ==
  /\ ~lost /\ isValidPosition(board)
  /\ board.tetrominos # << >>
  /\ board.fallingTetromino.orientation # RIGHT
  /\ \E cmd \in PieceCommands : ~isValidPosition(Commanded(board, cmd))
  /\ \E cmd \in PieceCommands : isValidPosition(Commanded(board, cmd))

\* ------------------------------------------------------------------------
\* C6
\* ------------------------------------------------------------------------

\* C6: command(cmd) followed by undoCommand(cmd) gives back the piece: its
\* anchor, orientation and cells, for every command; three clockwise steps
\* undo one clockwise rotation.
C6_UndoRestores ==
  LET t == board.fallingTetromino
  IN  /\ \A cmd \in Commands : undoCommand(command(t, cmd), cmd) = t
      /\ rotateClockwise(rotateClockwise(rotateClockwise(rotateClockwise(t)))) = t
      /\ rotateCounterclockwise(rotateClockwise(t)) = t

\* a T shape that commands have turned to face UP and moved off the origin
C6_Witness ==
  /\ board.tetrominos = << >>
  /\ board.fallingTetromino.tetrominoType = NumTypes
  /\ board.fallingTetromino.orientation = UP
  /\ board.fallingTetromino.x = -MaxAnchor
  /\ board.fallingTetromino.y = MaxAnchor

\* ------------------------------------------------------------------------
\* C7
\* ------------------------------------------------------------------------

\* isValidPosition as the claim words it
ValidAsClaimed(b) ==
  ~\E cell \in CellsOf(b.fallingTetromino) :
     \/ cell[1] < 0
     \/ cell[1] >= GridWidth
     \/ cell[2] < 0
     \/ cell \in SettledCells(b)

\* the boards isValidPosition is called with: the board as it is and the
\* board with each command applied
BoardsTried == {board} \cup {Commanded(board, cmd) : cmd \in PieceCommands}

\* C7: isValidPosition is false when a cell of the falling piece has column
\* < 0, column >= gridWidth or row < 0, or is a cell of a settled piece, and
\* true in every other case, however high the piece is.
C7_ValidPosition ==
  \A b \in BoardsTried : isValidPosition(b) <=> ValidAsClaimed(b)

\* the falling piece is valid with a cell above the start zone's first row,
\* one command would push it through the right wall and another into a
\* settled piece
C7_Witness ==
  /\ ~lost /\ isValidPosition(board)
  /\ \E cell \in CellsOf(board.fallingTetromino) : cell[2] > GridHeight
  /\ \E cmd \in PieceCommands :
       \E cell \in CellsOf(Commanded(board, cmd).fallingTetromino) : cell[1] >= GridWidth
  /\ \E cmd \in PieceCommands :
       /\ CellsOf(Commanded(board, cmd).fallingTetromino) \cap SettledCells(board) # {}
       /\ \A cell \in CellsOf(Commanded(board, cmd).fallingTetromino) :
            cell[1] >= 0 /\ cell[1] < GridWidth /\ cell[2] >= 0

\* ------------------------------------------------------------------------
\* C8
\* ------------------------------------------------------------------------

\* the settled pieces of which something is left once the rows are removed
LeftOver(b, rows) ==
  SelectSeq(b.tetrominos, LAMBDA t : AfterRemoval(CellsOf(t), rows) # {})

\* gridRows in ascending order
RECURSIVE Reversed(_)
Reversed(list) ==
  IF list = << >> THEN << >> ELSE Append(Reversed(Tail(list)), Head(list))

\* C8: for a list of distinct rows in any order, clearRows removes every
\* settled cell in a listed row, moves every other settled cell down by the
\* number of listed rows strictly below it, keeps its column, and drops the
\* pieces left with no cells (the others stay in their order).
C8_ClearRows ==
  \A gridRows \in RowLists :
    LET after == clearRows(board, gridRows)
        rows == Range(gridRows)
        left == LeftOver(board, rows)
    IN  /\ SettledCells(after) = AfterRemoval(SettledCells(board), rows)
        /\ Len(after.tetrominos) = Len(left)
        /\ \A i \in 1..Len(left) :
             /\ CellsOf(after.tetrominos[i]) = AfterRemoval(CellsOf(left[i]), rows)
             /\ Len(after.tetrominos[i].blockBoardCoords) =
                  Cardinality(CellsOf(after.tetrominos[i]))
             /\ after.tetrominos[i].blockBoardCoords # << >>
        /\ after.fallingTetromino = board.fallingTetromino
        /\ after.nextTetromino = board.nextTetromino

\* rows have been cleared off a board (a piece has lost cells), and for two
\* rows that are not adjacent clearRow in ascending order leaves other cells
\* than clearRows does
C8_Witness ==
  /\ \E i \in 1..Len(board.tetrominos) : Len(board.tetrominos[i].blockBoardCoords) < 4
  /\ \E gridRows \in RowLists :
       /\ Len(gridRows) = 2
       /\ gridRows[1] + 1 < gridRows[2]
       /\ SettledCells(ClearEach(board, Reversed(SortDescending(gridRows))))
            # SettledCells(clearRows(board, gridRows))

\* ------------------------------------------------------------------------
\* C9
\* ------------------------------------------------------------------------

\* the number of blocks in a row among the blocks of the settled pieces
SettledInRow(settled, row) == Len(SelectSeq(settled, LAMBDA coord : coord[2] = row))

\* the boards findFullRows is looked at on: the board as it is and, in a
\* game that is on, the board with the falling piece appended (as at a lock)
BoardsSearched ==
  {board} \cup (IF ~lost /\ isValidPosition(board) THEN {AppendFalling(board)} ELSE {})

\* findFullRows returned `found` on a board whose settled blocks are `settled`
FullRowsFound(b, settled, found) ==
  /\ Range(found) = {row \in RowTable : SettledInRow(settled, row) = GridWidth}
  /\ Len(found) = Cardinality(Range(found))
  /\ \A cell \in CellsOf(b.fallingTetromino) \cup CellsOf(b.nextTetromino) :
       SettledInRow(settled, cell[2]) < GridWidth => cell[2] \notin Range(found)

\* C9: findFullRows returns, each once, exactly the rows of
\* [0, gridHeight + STARTING_ZONE_HEIGHT) in which the settled pieces have
\* gridWidth blocks; the falling piece and the next piece are not counted: a
\* row of theirs that the settled pieces do not fill is not returned.
C9_FindFullRows ==
  \A b \in BoardsSearched :
    ~findFullRowsFails(b) =>
      FullRowsFound(b, NonFallingBlockCoords(b.tetrominos), findFullRows(b))

\* the falling piece completes a row that the settled pieces leave open:
\* findFullRows returns nothing now and that row once the piece is appended
C9_Witness ==
  /\ ~lost /\ isValidPosition(board)
  /\ findFullRows(board) = << >>
  /\ FullRowsIn(SettledCells(board) \cup CellsOf(board.fallingTetromino)) # {}
  /\ findFullRows(AppendFalling(board)) # << >>

\* ------------------------------------------------------------------------
\* C10
\* ------------------------------------------------------------------------

\* C10: no cell holds two settled blocks, of two pieces or of one.
C10_NoOverlap ==
  Len(NonFallingBlockCoords(board.tetrominos)) = Cardinality(SettledCells(board))

\* two settled pieces, one of them a remnant of a cleared row
C10_Witness ==
  /\ Len(board.tetrominos) >= 2
  /\ \E i \in 1..Len(board.tetrominos) : Len(board.tetrominos[i].blockBoardCoords) < 4

\* ------------------------------------------------------------------------
\* C11
\* ------------------------------------------------------------------------

\* a sequence of cells, each one row lower
Lowered(coords) == [i \in 1..Len(coords) |-> <<coords[i][1], coords[i][2] - 1>>]

\* C11: when the down-move of the falling piece is valid, updateTick returns
\* (0, not lost) and leaves the board as it was but for the falling piece,
\* which is one row lower: same column, orientation and type, every cell one
\* row down; the settled pieces and the next piece are as before, nothing is
\* spawned.
C11_ValidDownMoveOnly ==
  isValidPosition(MovedDown(board)) =>
    \A k \in BoardKinds :
      LET r == updateTick(board, k)
          f == board.fallingTetromino
      IN  /\ r.numClearedRows = 0 /\ ~r.gameLost /\ ~r.failed
          /\ r.board.tetrominos = board.tetrominos
          /\ r.board.nextTetromino = board.nextTetromino
          /\ r.board.fallingTetromino =
               [f EXCEPT !.y = f.y - 1, !.blockBoardCoords = Lowered(f.blockBoardCoords)]

\* a turned piece that ticks have brought down beside settled pieces and
\* that can go one row further
C11_Witness ==
  /\ ~lost /\ board.tetrominos # << >>
  /\ board.fallingTetromino.y < spawnY
  /\ board.fallingTetromino.orientation # RIGHT
  /\ isValidPosition(MovedDown(board))

\* ------------------------------------------------------------------------
\* C12
\* ------------------------------------------------------------------------

\* a piece of type k as it is created and then placed at (x, y)
Placed(k, x, y) ==
  [x |-> x, y |-> y, tetrominoType |-> k, orientation |-> RIGHT,
   blockBoardCoords |-> [i \in 1..4 |-> <<TYPES(k, RIGHT)[i][1] + x, TYPES(k, RIGHT)[i][2] + y>>]]

\* the lock updateTick makes of board b gave r
LockedAndSpawned(b, k, r) ==
  IF r.gameLost
  THEN /\ r.board.nextTetromino = b.nextTetromino
       /\ r.board.fallingTetromino.tetrominoType = b.fallingTetromino.tetrominoType
       /\ r.board.fallingTetromino.x = b.fallingTetromino.x
       /\ r.board.fallingTetromino.y = b.fallingTetromino.y
       /\ r.board.fallingTetromino.orientation = b.fallingTetromino.orientation
       /\ r.board.fallingTetromino \in Range(r.board.tetrominos)
  ELSE /\ r.board.fallingTetromino =
            Placed(b.nextTetromino.tetrominoType, GridWidth \div 3, GridHeight)
       /\ r.board.nextTetromino = Placed(k, NEXT_X, NEXT_Y)

\* C12: after a lock that is not a loss the falling piece is the piece that
\* was next (its type), at (floor(gridWidth / 3), gridHeight), facing RIGHT,
\* and the next piece is a new one at (NEXT_X, NEXT_Y); after a lock that is a
\* loss the falling piece is still the locked one and the next piece is as it
\* was.
C12_SpawnAfterLock ==
  (~lost /\ ~isValidPosition(MovedDown(board))) =>
    \A k \in AllKinds : LockedAndSpawned(board, k, updateTick(board, k))

\* a piece spawned by a lock that was not a loss has come to rest on a
\* settled one, and its own lock is a loss
C12_Witness ==
  /\ ~lost /\ board.tetrominos # << >>
  /\ isValidPosition(board) /\ ~isValidPosition(MovedDown(board))
  /\ board.nextTetromino.tetrominoType # board.fallingTetromino.tetrominoType
  /\ updateTick(board, NumTypes).gameLost

\* ------------------------------------------------------------------------
\* C13
\* ------------------------------------------------------------------------

\* the cells on the board when a LockStep's piece has come to rest
CellsAtLock == SettledCells(BoardBeforeTick) \cup CellsOf(RestTetromino)

\* C13: numRowsCleared starts at 0 and never decreases; it changes only in an
\* update that finds the game not paused and not lost, the timer due and the
\* falling piece unable to go down, and every such update adds to it exactly
\* the number of full rows it removes from the board (which it also leaves in
\* rowsCleared): numRowsCleared is the total of the rows cleared so far.
C13_RowsClearedTotal ==
  /\ numRowsCleared = 0
  /\ [][/\ numRowsCleared' >= numRowsCleared
        /\ numRowsCleared' # numRowsCleared => (LockStep /\ ~paused')
        /\ LockStep =>
             /\ numRowsCleared' = numRowsCleared + Cardinality(FullRowsIn(CellsAtLock))
             /\ rowsCleared' = Cardinality(FullRowsIn(CellsAtLock))
             /\ SettledCells(board') = AfterRemoval(CellsAtLock, FullRowsIn(CellsAtLock))
       ]_vars

\* a row has been cleared, and a later tick has cleared none
C13_Witness ==
  /\ ~lost /\ numRowsCleared = 1 /\ rowsCleared = 0
  /\ board.tetrominos # << >>

\* ------------------------------------------------------------------------
\* C14
\* ------------------------------------------------------------------------

\* C14: the first isTick returns False and schedules setTick; from then on
\* exactly one of these holds: one setTick is scheduled, or it has fired and
\* no isTick has been called since. A call after a firing returns True, clears
\* the flag and schedules setTick once; any other call returns False and
\* schedules nothing, so the call after a True call returns False. Never are
\* two callbacks scheduled.
C14_OneTickPerFiring ==
  LET poll == isTick(ticker)
  IN  /\ scheduled \in {0, 1}
      /\ ~ticker.started =>
           /\ ~ticker.tick /\ scheduled = 0
           /\ ~poll.ret /\ poll.schedules = 1
           /\ poll.ticker.started /\ ~poll.ticker.tick
      /\ ticker.started =>
           /\ (scheduled = 1) <=> ~ticker.tick
           /\ poll.ret <=> ticker.tick
           /\ poll.schedules = (IF ticker.tick THEN 1 ELSE 0)
           /\ poll.ticker.started /\ ~poll.ticker.tick
           /\ ~isTick(poll.ticker).ret /\ isTick(poll.ticker).schedules = 0

\* the countdown is armed again after a tick that the game has taken
C14_Witness ==
  /\ ticker.started /\ ~ticker.tick /\ scheduled = 1
  /\ rowsCleared # None

\* ------------------------------------------------------------------------
\* C15
\* ------------------------------------------------------------------------

\* the local offsets of a kind in an orientation, as a set
Offsets(k, o) == Range(TYPES(k, o))

\* C15: for each of the 7 kinds, each orientation and anchor,
\* calcBlockBoardCoords returns 4 cells, no two the same, and they are the
\* kind's local offsets for the orientation, each moved by the anchor.
C15_FourDistinctCells ==
  LET t == board.fallingTetromino
      cells == calcBlockBoardCoords(t)
  IN  /\ Len(cells) = 4
      /\ \A i, j \in 1..Len(cells) : i # j => cells[i] # cells[j]
      /\ Range(cells) = {<<c[1] + t.x, c[2] + t.y>> : c \in Offsets(t.tetrominoType, t.orientation)}
      /\ Cardinality(Offsets(t.tetrominoType, t.orientation)) = 4
      /\ t.blockBoardCoords = cells

\* the S shape, turned to face LEFT and moved to the far corner
C15_Witness ==
  /\ board.tetrominos = << >>
  /\ board.fallingTetromino.tetrominoType = NumTypes - 1
  /\ board.fallingTetromino.orientation = LEFT
  /\ board.fallingTetromino.x = MaxAnchor
  /\ board.fallingTetromino.y = -MaxAnchor

\* ------------------------------------------------------------------------
\* C16
\* ------------------------------------------------------------------------

\* a piece as it is built: 4 cells, its kind's offsets for its orientation
\* moved by its anchor
Whole(t) == t.blockBoardCoords = calcBlockBoardCoords(t) /\ Len(t.blockBoardCoords) = 4

\* what row clears leave of a piece: 1 to 4 cells, no two the same, each in
\* the column of one of its offsets moved by the anchor, at that offset's row
\* or lower
Remnant(t) ==
  /\ Len(t.blockBoardCoords) \in 1..4
  /\ Cardinality(CellsOf(t)) = Len(t.blockBoardCoords)
  /\ \A cell \in CellsOf(t) :
       \E c \in Offsets(t.tetrominoType, t.orientation) :
          cell[1] = c[1] + t.x /\ cell[2] <= c[2] + t.y

\* C16 as stated: every piece the board holds (settled, falling, next) has
\* exactly 4 cells, its kind's offsets for its orientation moved by its anchor.
C16_AsStated ==
  /\ \A i \in 1..Len(board.tetrominos) : Whole(board.tetrominos[i])
  /\ Whole(board.fallingTetromino)
  /\ Whole(board.nextTetromino)

\* C16 (amended): the next piece, and the falling piece while the game is not
\* lost, have exactly 4 cells, the kind's offsets for the orientation moved by
\* the anchor; a settled piece (and the falling piece of a lost game, which is
\* settled) has 1 to 4 distinct cells, each in the column of one of its moved
\* offsets, at that offset's row or lower.
C16_WholeOrRemnant ==
  /\ Whole(board.nextTetromino)
  /\ ~lost => Whole(board.fallingTetromino)
  /\ lost => Remnant(board.fallingTetromino)
  /\ \A i \in 1..Len(board.tetrominos) : Remnant(board.tetrominos[i])

\* a game that goes on with a whole settled piece and one that a cleared row
\* has cut
C16_Witness ==
  /\ ~lost
  /\ \E i \in 1..Len(board.tetrominos) : Whole(board.tetrominos[i])
  /\ \E i \in 1..Len(board.tetrominos) : Len(board.tetrominos[i].blockBoardCoords) \in 1..3

\* ------------------------------------------------------------------------
\* C17
\* ------------------------------------------------------------------------

\* C17: no update has raised; every settled cell has 0 <= column < gridWidth
\* and a row of findFullRows' table, so neither findFullRows on the board as
\* it is, nor the findFullRows of a lock from here, nor updateTick meets a
\* row outside the table.
C17_NeverFails ==
  /\ ~failed
  /\ \A cell \in SettledCells(board) :
       /\ 0 <= cell[1] /\ cell[1] < GridWidth
       /\ 0 <= cell[2] /\ cell[2] < GridHeight + STARTING_ZONE_HEIGHT
       /\ cell[2] \in RowTable
  /\ ~findFullRowsFails(board)
  /\ ~lost => ~findFullRowsFails(AppendFalling(board))
  /\ ~lost => \A k \in BoardKinds : ~updateTick(board, k).failed

\* a lock has put a block in the last row of the table
C17_Witness ==
  \E cell \in SettledCells(board) : cell[2] = GridHeight + STARTING_ZONE_HEIGHT - 1

\* ------------------------------------------------------------------------
\* C19
\* ------------------------------------------------------------------------

\* tetris.py: the grid the program is shipped with
GRID_WIDTH == 10

GRID_HEIGHT == 20

\* a piece of type k, as spawnTetromino places it on a grid of the given
\* size, lies between the walls and in the start zone
SpawnsClear(k, gridWidth, gridHeight) ==
  \A cell \in CellsOf(Placed(k, gridWidth \div 3, gridHeight)) :
     0 <= cell[1] /\ cell[1] < gridWidth /\ cell[2] >= gridHeight

\* C19: while the game is not lost the falling piece is in a valid position,
\* also right after a spawn: every settled cell is then below row gridHeight,
\* and a spawned piece of any type lies between the walls at row gridHeight or
\* higher, on the grid of the model and on the shipped 10 x 20 grid.
C19_FallingAlwaysValid ==
  /\ ~lost => isValidPosition(board)
  /\ ~lost => \A cell \in SettledCells(board) : cell[2] < GridHeight
  /\ \A k \in AllKinds : SpawnsClear(k, GridWidth, GridHeight)
  /\ \A k \in AllKinds : SpawnsClear(k, GRID_WIDTH, GRID_HEIGHT)

\* a piece has just been spawned over a stack that reaches the last row of
\* the grid
C19_Witness ==
  /\ ~lost
  /\ board.fallingTetromino.x = spawnX /\ board.fallingTetromino.y = spawnY
  /\ board.fallingTetromino.orientation = RIGHT
  /\ \E cell \in SettledCells(board) : cell[2] = GridHeight - 1

\* ------------------------------------------------------------------------
\* C20
\* ------------------------------------------------------------------------

\* the rows in which a piece has a cell
RowsOf(t) == {cell[2] : cell \in CellsOf(t)}

\* the lock of the falling piece of b: findFullRows finds at most 4 rows,
\* all of them rows of that piece, and once they are cleared no row is full
LockLeavesNoFullRow(b, fullRows) ==
  /\ Len(fullRows) <= 4
  /\ Range(fullRows) \subseteq RowsOf(b.fallingTetromino)
  /\ \A k \in Kinds :
       /\ FullRowsIn(SettledCells(updateTick(b, k).board)) = {}
       /\ findFullRows(updateTick(b, k).board) = << >>
       /\ updateTick(b, k).numClearedRows = Len(fullRows)

\* C20: no row of the settled cells is full, before a tick and after it; a
\* lock clears at most 4 rows, each a row of the piece it locks, and leaves
\* no full row behind.
C20_NoFullRowLeft ==
  /\ FullRowsIn(SettledCells(board)) = {}
  /\ findFullRows(board) = << >>
  /\ rowsCleared # None => rowsCleared <= 4
  /\ (~lost /\ ~isValidPosition(MovedDown(board))) =>
       LockLeavesNoFullRow(board, findFullRows(AppendFalling(board)))

\* one lock has cleared two rows and left blocks on the board
C20_Witness ==
  /\ rowsCleared = 2 /\ numRowsCleared = 2
  /\ board.tetrominos # << >>

\* ------------------------------------------------------------------------
\* C18
\* ------------------------------------------------------------------------

\* the ticks the falling piece has had in SpecFall: the rows it has come down
TicksHad == spawnY - board.fallingTetromino.y

\* the number of blocks of settled pieces
SettledBlocks == Len(NonFallingBlockCoords(board.tetrominos))

\* the lowest local row in which a kind has a block in an orientation
LowestLocalRow(k, o) ==
  CHOOSE r \in {c[2] : c \in Offsets(k, o)} : \A c \in Offsets(k, o) : r <= c[2]

\* the lowest anchor a piece can have with a block on the floor: the line
\* facing LEFT has its blocks in local row 2
LowestAnchor ==
  CHOOSE y \in {-LowestLocalRow(k, o) : k \in AllKinds, o \in Orientations} :
    \A k \in AllKinds, o \in Orientations : y <= -LowestLocalRow(k, o)

\* C18 as stated: the falling piece locks at its tick gridHeight + 1 at the
\* latest: a piece still falling has had at most gridHeight ticks.
C18_AsStated == ~lost => TicksHad + 1 <= GridHeight + 1

\* a step of the board: a command that leaves the piece in its row, a tick
\* that takes it one row down, or a tick that locks it, followed by the lost
\* state or by the spawn of the next piece
FallStep ==
  \/ /\ board'.fallingTetromino.y = board.fallingTetromino.y
     /\ board'.tetrominos = board.tetrominos /\ ~lost'
  \/ /\ board'.fallingTetromino.y = board.fallingTetromino.y - 1
     /\ board'.tetrominos = board.tetrominos /\ ~lost'
  \/ /\ ~isValidPosition(MovedDown(board))
     /\ SettledBlocks' # SettledBlocks
     /\ \/ lost'
        \/ board'.fallingTetromino =
             Placed(board.nextTetromino.tetrominoType, spawnX, spawnY)

\* C18 (amended): while the game is on and ticks keep coming, the falling
\* piece locks after at most gridHeight + 3 ticks, whatever the player does:
\* no command, kept or rolled back, leaves the piece higher; a tick always
\* changes the board: it takes the piece one row down or locks it; its anchor is never below row -2; a piece that
\* has left the spawn row does lock; and a lock is followed by the lost state
\* or by a spawn, which puts the next piece in the spawn row.
C18_LocksWithinTicks ==
  /\ [](~lost => /\ board.fallingTetromino.y >= LowestAnchor /\ LowestAnchor = -2
                 /\ TicksHad + 1 <= GridHeight + 3
                 /\ \A cmd \in PieceCommands :
                      commandFallingTetromino(board, cmd).fallingTetromino.y
                        <= board.fallingTetromino.y
                 /\ \A k \in BoardKinds : updateTick(board, k).board # board)
  /\ [][FallStep]_vars
  /\ (~lost /\ Live /\ board.fallingTetromino.y < spawnY)
       ~> (lost \/ ~Live \/ board.fallingTetromino.y = spawnY)

\* a line, turned to face LEFT, has come down gridHeight + 2 rows and lies on
\* the floor beside settled pieces: its next tick locks it
C18_Witness ==
  /\ ~lost /\ isValidPosition(board)
  /\ board.fallingTetromino.y = LowestAnchor
  /\ TicksHad = GridHeight + 2
  /\ board.tetrominos # << >>

\* ------------------------------------------------------------------------
\* C21
\* ------------------------------------------------------------------------

\* the columns in which pieces that are never moved or turned have blocks, on
\* a grid of the given width
IdleColumns(gridWidth) ==
  UNION {{cell[1] : cell \in CellsOf(Placed(k, gridWidth \div 3, 0))} : k \in AllKinds}

\* C21: when the player never moves or turns a piece and does not leave the
\* game paused, and update and the tick timer keep coming, the game is lost
\* in the end whatever types are drawn, and numRowsCleared is 0 throughout:
\* every piece stays in the spawn column facing RIGHT, the blocks lie in
\* fewer columns than the grid has (on the model's grid and on the shipped
\* one of width 10), so no row fills, and a game that goes on has no block in
\* the start zone.
C21_IdleGameIsLost ==
  /\ [](numRowsCleared = 0)
  /\ [](~lost => /\ board.fallingTetromino.x = spawnX
                 /\ board.fallingTetromino.orientation = RIGHT
                 /\ \A cell \in SettledCells(board) :
                      cell[1] \in IdleColumns(GridWidth) /\ cell[2] < GridHeight)
  /\ [](/\ Cardinality(IdleColumns(GridWidth)) < GridWidth
        /\ Cardinality(IdleColumns(GRID_WIDTH)) < GRID_WIDTH)
  /\ <>lost

\* the game is lost with several pieces stacked, no row cleared, after the
\* player has paused it and let it go on
C21_Witness ==
  /\ lost /\ numRowsCleared = 0
  /\ Len(board.tetrominos) >= 3
  /\ ~paused /\ action = TOGGLE_PAUSE

====
